---- MODULE Spec2Model ----
(***************************************************************************)
(* Model of sjuratov/fastapi-azure-functions: two greeting endpoints and a *)
(* self-hosted schema-viewer page on an embedded web application, and the  *)
(* serverless proxy function that forwards every inbound request to it.    *)
(*                                                                         *)
(* Text is a TLA+ string.  A URL path is the sequence of its segments, as  *)
(* path.split("/")[1:] gives them: "/api/omy" is <<"api","omy">>,          *)
(* "/api/omy/" is <<"api","omy","">> and "/" is <<"">>.  A query string    *)
(* and the members of a JSON object are sequences of key/value pairs in    *)
(* the order they were written.  An optional value is a sequence of        *)
(* length 0 or 1.                                                          *)
(***************************************************************************)
EXTENDS Integers, Sequences, FiniteSets, TLC

VARIABLES
    settings,        \* app/config.py: the configuration holder
    openapi_schema,  \* per application object: the cached API schema
    pc,              \* per invocation of fastapi_handler: where it stands
    req,             \* per invocation: the inbound func.HttpRequest
    scope,           \* per invocation: what asgi_middleware handed the app
    app_out,         \* per invocation: the embedded application's answer
    handler,         \* per invocation: the endpoint function that ran
    response,        \* per invocation: the local `response`
    ret,             \* per invocation: what was returned to the gateway
    log,             \* the lines logging.info has emitted, in order
    schema_writer,   \* the invocation that filled fastapi_app's schema cache
    schema_readers,  \* the invocations that were served from that cache
    client           \* a direct (test-client) call on an application object

vars == <<settings, openapi_schema, pc, req, scope, app_out, handler,
          response, ret, log, schema_writer, schema_readers, client>>

(***************************************************************************)
(* Bounds of the model.                                                    *)
(***************************************************************************)
MaxInv == 2       \* concurrent invocations of the proxy function
MaxQuery == 2     \* key/value pairs in a query string
MaxMembers == 2   \* members of a JSON object body
MaxCalls == 2     \* direct calls made with one request

Inv == 1..MaxInv

None == <<>>
Some(x) == <<x>>

SeqsUpTo(S, n) == UNION {[1..k -> S] : k \in 0..n}

(***************************************************************************)
(* Requests.                                                               *)
(***************************************************************************)
Methods == {"GET", "POST"}

Paths == { <<"api", "omy">>, <<"api", "helloUser">>, <<"api", "docs">>,
           <<"openapi.json">>, <<"docs">>,
           <<"api", "omy", "">>, <<"api", "nope">>, <<"">> }

QueryKeys == {"name", "lang"}
QueryValues == {"", "Alice"}
Queries == SeqsUpTo([k : QueryKeys, v : QueryValues], MaxQuery)

\* JSON scalars (and an array, which is never looked into).
JString(s) == [t |-> "string", v |-> s]
JNumber == [t |-> "number", v |-> "42"]
JNull == [t |-> "null", v |-> "null"]
JArray == [t |-> "array", v |-> "[]"]
JValues == {JString(""), JString("Bob"), JNumber, JNull}
MemberKeys == {"name", "age"}
JObjects == SeqsUpTo([k : MemberKeys, v : JValues], MaxMembers)

\* The bytes of a request body: nothing, a JSON document, or bytes that do
\* not parse as JSON.
EmptyBody == [kind |-> "empty", t |-> "", members |-> <<>>]
InvalidBody == [kind |-> "invalid", t |-> "", members |-> <<>>]
ObjectBody(m) == [kind |-> "json", t |-> "object", members |-> m]
ArrayBody == [kind |-> "json", t |-> "array", members |-> <<>>]
Bodies == {EmptyBody, InvalidBody, ArrayBody} \cup {ObjectBody(m) : m \in JObjects}

ContentTypes == {"", "application/json", "text/plain"}

HttpRequest(m, p, q, c, b) ==
    [method |-> m, url |-> [path |-> p, query |-> q],
     headers |-> [content_type |-> c], body |-> b]

\* The paths a body is posted to: the body endpoint, a route that takes no
\* POST, a path that is no route.
BodyPaths == { <<"api", "helloUser">>, <<"api", "omy">>, <<"api", "nope">> }

\* Every request a direct call is tried on: any method with a query string
\* and no body, POST with a body.
AllRequests ==
    {HttpRequest(m, p, q, "", EmptyBody) : m \in Methods, p \in Paths, q \in Queries}
    \cup
    {HttpRequest("POST", p, <<>>, c, b) : p \in BodyPaths, c \in ContentTypes, b \in Bodies}

Name(s) == <<[k |-> "name", v |-> s]>>
NameMember(j) == <<[k |-> "name", v |-> j]>>

\* The requests the concurrent invocations draw from.
ProxyRequests ==
    { HttpRequest("GET", <<"api", "omy">>, <<>>, "", EmptyBody),
      HttpRequest("GET", <<"api", "omy">>, Name("Alice"), "", EmptyBody),
      HttpRequest("POST", <<"api", "omy">>, <<>>, "", EmptyBody),
      HttpRequest("POST", <<"api", "helloUser">>, <<>>, "application/json",
                  ObjectBody(NameMember(JString("Bob")))),
      HttpRequest("POST", <<"api", "helloUser">>, <<>>, "application/json",
                  ObjectBody(NameMember(JString("")))),
      HttpRequest("POST", <<"api", "helloUser">>, <<>>, "application/json",
                  ObjectBody(<<>>)),
      HttpRequest("GET", <<"api", "docs">>, <<>>, "", EmptyBody),
      HttpRequest("GET", <<"openapi.json">>, <<>>, "", EmptyBody),
      HttpRequest("GET", <<"api", "omy", "">>, <<>>, "", EmptyBody),
      HttpRequest("GET", <<"api", "nope">>, <<>>, "", EmptyBody),
      HttpRequest("POST", <<"api", "nope">>, <<>>, "application/json",
                  ObjectBody(NameMember(JString("Bob")))) }

(***************************************************************************)
(* Configuration and the two application objects.                          *)
(***************************************************************************)
Apps == {"fastapi_app", "app"}

Settings ==
    [APP_NAME |-> "FastAPI on Azure Functions",
     VERSION |-> "0.1.0",
     DESCRIPTION |-> "FastAPI application running on Azure Functions",
     DEBUG |-> FALSE]

\* title, version and description of an application object: FastAPI()'s own
\* defaults for fastapi_app, the configuration holder's values for app.
AppInfo(a) ==
    IF a = "app"
    THEN [title |-> Settings.APP_NAME, version |-> Settings.VERSION,
          description |-> Settings.DESCRIPTION]
    ELSE [title |-> "FastAPI", version |-> "0.1.0", description |-> ""]

Route(p, ms, e, s) ==
    [path |-> p, methods |-> ms, endpoint |-> e, include_in_schema |-> s]

\* The route table in registration order: the routes FastAPI() sets up for
\* itself, the two greeting routes, the schema-viewer page.
Routes ==
    << Route(<<"openapi.json">>, {"GET"}, "openapi", FALSE),
       Route(<<"docs">>, {"GET"}, "swagger_ui_html", FALSE),
       Route(<<"docs", "oauth2-redirect">>, {"GET"}, "swagger_ui_redirect", FALSE),
       Route(<<"redoc">>, {"GET"}, "redoc_html", FALSE),
       Route(<<"api", "omy">>, {"GET"}, "omy", TRUE),
       Route(<<"api", "helloUser">>, {"POST"}, "hello", TRUE),
       Route(<<"api", "docs">>, {"GET"}, "custom_swagger_ui_html", FALSE) >>

(***************************************************************************)
(* Responses of an application object.                                     *)
(***************************************************************************)
AppResponse(st, ct, loc, b) ==
    [status |-> st, headers |-> [content_type |-> ct, location |-> loc], body |-> b]

Body(kind, text, errors, title, url, spec) ==
    [kind |-> kind, text |-> text, errors |-> errors, title |-> title,
     openapi_url |-> url, spec |-> spec]

\* {"message": text}
JsonMessage(text) == Body("message", text, <<>>, "", "", None)
\* {"detail": text}
JsonDetail(text) == Body("detail", text, <<>>, "", "", None)
\* {"detail": [ {type, loc, ...}, ... ]}
JsonErrors(errors) == Body("errors", "", errors, "", "", None)
\* the API schema as a JSON document
JsonSchema(schema) == Body("schema", "", <<>>, "", "", Some(schema))
\* an HTML page; `text` is the widget it mounts, `url` the schema URL the
\* widget is told to fetch, `spec` the schema written into the page
HtmlPage(text, title, url, spec) == Body("html", text, <<>>, title, url, spec)
NoBody == Body("empty", "", <<>>, "", "", None)

JSONResponse(st, b) == AppResponse(st, "application/json", None, b)
HTMLResponse(b) == AppResponse(200, "text/html; charset=utf-8", None, b)
RedirectResponse(p) == AppResponse(307, "", Some(p), NoBody)

ValidationError(type, loc) == [type |-> type, loc |-> loc]

(***************************************************************************)
(* The API schema and its cache.                                           *)
(***************************************************************************)
Last(idx) == CHOOSE i \in idx : \A j \in idx : j <= i

get_openapi(a) ==
    [openapi |-> "3.1.0",
     info |-> AppInfo(a),
     paths |-> UNION {{[path |-> Routes[n].path, method |-> m] : m \in Routes[n].methods} :
                         n \in {k \in 1..Len(Routes) : Routes[k].include_in_schema}}]

\* As openapi, but what is kept is a schema taken before the routes were
\* collected.
openapi_stale_cache(a, cache) ==
    IF cache = None
    THEN [schema |-> get_openapi(a),
          cache |-> Some([get_openapi(a) EXCEPT !.paths = {}]), hit |-> FALSE]
    ELSE [schema |-> cache[1], cache |-> cache, hit |-> TRUE]

\* FastAPI.openapi(): the schema is generated on first use and kept.
openapi(a, cache) ==
    IF cache = None
    THEN [schema |-> get_openapi(a), cache |-> Some(get_openapi(a)), hit |-> FALSE]
    ELSE [schema |-> cache[1], cache |-> cache, hit |-> TRUE]

(***************************************************************************)
(* Reading a request: the query string, the JSON body, the body model.     *)
(***************************************************************************)
\* query_params.get(key): the last value written for the key, if any.
QueryGet(q, key) ==
    LET idx == {i \in 1..Len(q) : q[i].k = key}
    IN  IF idx = {} THEN None ELSE Some(q[Last(idx)].v)

\* json.loads keeps the last member written for a key.
ObjGet(members, key) ==
    LET idx == {i \in 1..Len(members) : members[i].k = key}
    IN  IF idx = {} THEN None ELSE Some(members[Last(idx)].v)

\* What the framework hands the body model: nothing for an empty body, the
\* parsed document when the body is sent as JSON (no content type, or
\* application/json), the raw bytes otherwise.
read_body(sc) ==
    IF sc.body.kind = "empty" THEN [kind |-> "none", t |-> "", members |-> <<>>]
    ELSE IF sc.headers.content_type \in {"", "application/json"}
         THEN sc.body
         ELSE [kind |-> "bytes", t |-> "", members |-> <<>>]

\* As HelloRequest, but a number is taken as text.
HelloRequest_coercing(input) ==
    LET fail(type, loc) == [errors |-> <<ValidationError(type, loc)>>, name |-> ""]
        name == ObjGet(input.members, "name")
    IN  CASE input.kind = "none" -> fail("missing", <<"body">>)
          [] input.kind = "invalid" -> fail("json_invalid", <<"body", "0">>)
          [] input.kind = "bytes" -> fail("model_attributes_type", <<"body">>)
          [] input.t # "object" -> fail("model_attributes_type", <<"body">>)
          [] name = None -> fail("missing", <<"body", "name">>)
          [] name[1].t \notin {"string", "number"} -> fail("string_type", <<"body", "name">>)
          [] OTHER -> [errors |-> <<>>, name |-> name[1].v]

\* As HelloRequest, but name must have at least one character.
HelloRequest_nonempty(input) ==
    LET fail(type, loc) == [errors |-> <<ValidationError(type, loc)>>, name |-> ""]
        name == ObjGet(input.members, "name")
    IN  CASE input.kind = "none" -> fail("missing", <<"body">>)
          [] input.kind = "invalid" -> fail("json_invalid", <<"body", "0">>)
          [] input.kind = "bytes" -> fail("model_attributes_type", <<"body">>)
          [] input.t # "object" -> fail("model_attributes_type", <<"body">>)
          [] name = None -> fail("missing", <<"body", "name">>)
          [] name[1].t # "string" -> fail("string_type", <<"body", "name">>)
          [] name[1].v = "" -> fail("string_too_short", <<"body", "name">>)
          [] OTHER -> [errors |-> <<>>, name |-> name[1].v]

\* class HelloRequest(BaseModel): name: str
\* One required member, which must be a JSON string; other members are
\* ignored.  The result is the list of violations and the name read.
HelloRequest(input) ==
    LET fail(type, loc) == [errors |-> <<ValidationError(type, loc)>>, name |-> ""]
        name == ObjGet(input.members, "name")
    IN  CASE input.kind = "none" -> fail("missing", <<"body">>)
          [] input.kind = "invalid" -> fail("json_invalid", <<"body", "0">>)
          [] input.kind = "bytes" -> fail("model_attributes_type", <<"body">>)
          [] input.t # "object" -> fail("model_attributes_type", <<"body">>)
          [] name = None -> fail("missing", <<"body", "name">>)
          [] name[1].t # "string" -> fail("string_type", <<"body", "name">>)
          [] OTHER -> [errors |-> <<>>, name |-> name[1].v]

(***************************************************************************)
(* The endpoint functions.                                                 *)
(***************************************************************************)
\* As omy, but the parameter is not used.
omy_ignores_name(name) == JsonMessage("O my, hello, World!")

\* def omy(name: str = "World")
omy(name) == JsonMessage("O my, hello, " \o name \o "!")

\* As hello, but with the other endpoint's greeting.
hello_as_omy(request) == JsonMessage("O my, hello, " \o request.name \o "!")

\* def hello(request: HelloRequest)
hello(request) == JsonMessage("Hello, " \o request.name \o "!")

\* As custom_swagger_ui_html, but the stock page, which fetches the schema.
custom_swagger_ui_html_stock(a, schema) ==
    HtmlPage("swagger-ui", AppInfo(a).title \o " - Swagger UI", "/openapi.json", None)

\* async def custom_swagger_ui_html(): the viewer page with no schema URL and
\* the application's schema written into it.
custom_swagger_ui_html(a, schema) ==
    HtmlPage("swagger-ui", AppInfo(a).title \o " - Swagger UI", "", Some(schema))

Result(resp, cache, ran, hit) ==
    [response |-> resp, cache |-> cache, ran |-> ran, hit |-> hit]

\* A matched route: the framework reads the endpoint's parameters from the
\* request, answers 422 itself when they do not validate, and otherwise
\* calls the endpoint and serialises what it returns.
Endpoint(a, e, sc, cache) ==
    LET name == QueryGet(sc.query_string, "name")
        model == HelloRequest(read_body(sc))
        api == openapi(a, cache)
    IN  CASE e = "omy" ->
               Result(JSONResponse(200, omy(IF name = None THEN "World" ELSE name[1])),
                      cache, "omy", FALSE)
          [] e = "hello" ->
               IF model.errors # <<>>
               THEN Result(JSONResponse(422, JsonErrors(model.errors)), cache, "", FALSE)
               ELSE Result(JSONResponse(200, hello(model)), cache, "hello", FALSE)
          [] e = "custom_swagger_ui_html" ->
               Result(HTMLResponse(custom_swagger_ui_html(a, api.schema)),
                      api.cache, "custom_swagger_ui_html", api.hit)
          [] e = "openapi" ->
               Result(JSONResponse(200, JsonSchema(api.schema)), api.cache, "openapi", api.hit)
          [] e = "swagger_ui_html" ->
               Result(HTMLResponse(HtmlPage("swagger-ui", AppInfo(a).title \o " - Swagger UI",
                                            "/openapi.json", None)),
                      cache, "swagger_ui_html", FALSE)
          [] e = "swagger_ui_redirect" ->
               Result(HTMLResponse(HtmlPage("oauth2-redirect", "", "", None)),
                      cache, "swagger_ui_redirect", FALSE)
          [] OTHER ->
               Result(HTMLResponse(HtmlPage("redoc", AppInfo(a).title \o " - ReDoc",
                                            "/openapi.json", None)),
                      cache, "redoc_html", FALSE)

(***************************************************************************)
(* The router.                                                             *)
(***************************************************************************)
\* The path with its trailing slash taken away, or added when it has none.
ToggleSlash(p) ==
    IF p[Len(p)] = ""
    THEN LET keep == {n \in 1..Len(p) : p[n] # ""}
         IN  IF keep = {} THEN <<>> ELSE SubSeq(p, 1, Last(keep))
    ELSE Append(p, "")

\* As App, but a path is never retried with its trailing slash toggled.
App_no_redirect(a, sc, cache) ==
    LET full == {n \in 1..Len(Routes) :
                    Routes[n].path = sc.path /\ sc.method \in Routes[n].methods}
        partial == {n \in 1..Len(Routes) : Routes[n].path = sc.path}
        first(idx) == CHOOSE n \in idx : \A k \in idx : n <= k
    IN  IF full # {} THEN Endpoint(a, Routes[first(full)].endpoint, sc, cache)
        ELSE IF partial # {}
        THEN Result(JSONResponse(405, JsonDetail("Method Not Allowed")), cache, "", FALSE)
        ELSE Result(JSONResponse(404, JsonDetail("Not Found")), cache, "", FALSE)

\* The first route whose path and method match answers; a route whose path
\* alone matches answers 405; a path that matches a route once its trailing
\* slash is toggled is redirected there; anything else is 404.
App(a, sc, cache) ==
    LET full == {n \in 1..Len(Routes) :
                    Routes[n].path = sc.path /\ sc.method \in Routes[n].methods}
        partial == {n \in 1..Len(Routes) : Routes[n].path = sc.path}
        first(idx) == CHOOSE n \in idx : \A k \in idx : n <= k
        other == ToggleSlash(sc.path)
    IN  IF full # {} THEN Endpoint(a, Routes[first(full)].endpoint, sc, cache)
        ELSE IF partial # {}
        THEN Result(JSONResponse(405, JsonDetail("Method Not Allowed")), cache, "", FALSE)
        ELSE IF sc.path # <<"">> /\ \E n \in 1..Len(Routes) : Routes[n].path = other
        THEN Result(RedirectResponse(other), cache, "", FALSE)
        ELSE Result(JSONResponse(404, JsonDetail("Not Found")), cache, "", FALSE)

(***************************************************************************)
(* The proxy function (function_app.py).                                   *)
(***************************************************************************)
\* AsgiMiddleware: the inbound request as the ASGI scope and body the
\* embedded application is called with.
AsgiRequest(r) ==
    [method |-> r.method, path |-> r.url.path, query_string |-> r.url.query,
     headers |-> r.headers, body |-> r.body]

\* AsgiMiddleware: the application's answer as a func.HttpResponse.
to_func_response(out) ==
    [status_code |-> out.status, headers |-> out.headers, body |-> out.body]

\* logging.info(f"{req.method} {req.url} -> {response.status_code}")
LogLine(i, r, resp) ==
    [by |-> i, method |-> r.method, url |-> r.url, status_code |-> resp.status_code]

\* The host invokes fastapi_handler(req); the handler calls
\* asgi_middleware.handle_async(req) and is suspended.
fastapi_handler_call(i, r) ==
    /\ pc[i] = "idle"
    /\ pc' = [pc EXCEPT ![i] = "awaiting"]
    /\ req' = [req EXCEPT ![i] = Some(r)]
    /\ scope' = [scope EXCEPT ![i] = Some(AsgiRequest(r))]
    /\ UNCHANGED <<settings, openapi_schema, app_out, handler, response, ret, log,
                   schema_writer, schema_readers, client>>

\* As handle_async_respond, but the application is called with the request
\* some invocation left in a shared place, not with the invocation's own.
handle_async_respond_shared(i) ==
    /\ pc[i] = "awaiting"
    /\ \E j \in Inv :
        /\ scope[j] # None
        /\ LET out == App("fastapi_app", scope[j][1], openapi_schema["fastapi_app"])
               wrote == openapi_schema["fastapi_app"] = None /\ out.cache # None
           IN  /\ openapi_schema' = [openapi_schema EXCEPT !["fastapi_app"] = out.cache]
               /\ app_out' = [app_out EXCEPT ![i] = Some(out.response)]
               /\ handler' = [handler EXCEPT ![i] = out.ran]
               /\ response' = [response EXCEPT ![i] = Some(to_func_response(out.response))]
               /\ schema_writer' = IF wrote THEN i ELSE schema_writer
               /\ schema_readers' = IF out.hit THEN schema_readers \cup {i} ELSE schema_readers
    /\ pc' = [pc EXCEPT ![i] = "responded"]
    /\ UNCHANGED <<settings, req, scope, ret, log, client>>

\* The embedded application answers; the handler resumes with `response`.
handle_async_respond(i) ==
    /\ pc[i] = "awaiting"
    /\ LET out == App("fastapi_app", scope[i][1], openapi_schema["fastapi_app"])
           wrote == openapi_schema["fastapi_app"] = None /\ out.cache # None
       IN  /\ openapi_schema' = [openapi_schema EXCEPT !["fastapi_app"] = out.cache]
           /\ app_out' = [app_out EXCEPT ![i] = Some(out.response)]
           /\ handler' = [handler EXCEPT ![i] = out.ran]
           /\ response' = [response EXCEPT ![i] = Some(to_func_response(out.response))]
           /\ schema_writer' = IF wrote THEN i ELSE schema_writer
           /\ schema_readers' = IF out.hit THEN schema_readers \cup {i} ELSE schema_readers
    /\ pc' = [pc EXCEPT ![i] = "responded"]
    /\ UNCHANGED <<settings, req, scope, ret, log, client>>

\* As handle_async_raise, but the failure is logged on the way out.
handle_async_raise_logged(i) ==
    /\ pc[i] = "awaiting"
    /\ pc' = [pc EXCEPT ![i] = "raised"]
    /\ log' = Append(log, [by |-> i, method |-> req[i][1].method, url |-> req[i][1].url,
                           status_code |-> 500])
    /\ UNCHANGED <<settings, openapi_schema, req, scope, app_out, handler, response,
                   ret, schema_writer, schema_readers, client>>

\* The forwarding raises: the await re-raises in the handler, which has no
\* except clause, so the invocation ends there.
handle_async_raise(i) ==
    /\ pc[i] = "awaiting"
    /\ pc' = [pc EXCEPT ![i] = "raised"]
    /\ UNCHANGED <<settings, openapi_schema, req, scope, app_out, handler, response,
                   ret, log, schema_writer, schema_readers, client>>

logging_info(i) ==
    /\ pc[i] = "responded"
    /\ log' = Append(log, LogLine(i, req[i][1], response[i][1]))
    /\ pc' = [pc EXCEPT ![i] = "logged"]
    /\ UNCHANGED <<settings, openapi_schema, req, scope, app_out, handler, response,
                   ret, schema_writer, schema_readers, client>>

\* As fastapi_handler_return, but a new response is built from the body
\* alone, with the default status and no headers.
fastapi_handler_return_rebuilt(i) ==
    /\ pc[i] = "logged"
    /\ ret' = [ret EXCEPT ![i] = Some([status_code |-> 200,
                                       headers |-> [content_type |-> "", location |-> None],
                                       body |-> response[i][1].body])]
    /\ pc' = [pc EXCEPT ![i] = "returned"]
    /\ UNCHANGED <<settings, openapi_schema, req, scope, app_out, handler, response,
                   log, schema_writer, schema_readers, client>>

\* return response
fastapi_handler_return(i) ==
    /\ pc[i] = "logged"
    /\ ret' = [ret EXCEPT ![i] = response[i]]
    /\ pc' = [pc EXCEPT ![i] = "returned"]
    /\ UNCHANGED <<settings, openapi_schema, req, scope, app_out, handler, response,
                   log, schema_writer, schema_readers, client>>

ProxyInit ==
    /\ settings = Settings
    /\ openapi_schema = [a \in Apps |-> None]
    /\ pc = [i \in Inv |-> "idle"]
    /\ req = [i \in Inv |-> None]
    /\ scope = [i \in Inv |-> None]
    /\ app_out = [i \in Inv |-> None]
    /\ handler = [i \in Inv |-> ""]
    /\ response = [i \in Inv |-> None]
    /\ ret = [i \in Inv |-> None]
    /\ log = <<>>
    /\ schema_writer = 0
    /\ schema_readers = {}

Init ==
    /\ ProxyInit
    /\ client = None

Next ==
    \E i \in Inv :
        \/ \E r \in ProxyRequests : fastapi_handler_call(i, r)
        \/ handle_async_respond(i)
        \/ handle_async_raise(i)
        \/ logging_info(i)
        \/ fastapi_handler_return(i)

Spec == Init /\ [][Next]_vars

(***************************************************************************)
(* Direct calls on an application object, as the test client makes them:   *)
(* one request, drawn at the start, sent up to MaxCalls times, with any    *)
(* number of other requests served in between.                             *)
(***************************************************************************)
ClientCall ==
    /\ client # None
    /\ Len(client[1].outs) < MaxCalls
    /\ LET c == client[1]
           out == App(c.app, AsgiRequest(c.req), openapi_schema[c.app])
       IN  /\ client' = Some([c EXCEPT !.outs = Append(@, out)])
           /\ openapi_schema' = [openapi_schema EXCEPT ![c.app] = out.cache]
    /\ UNCHANGED <<settings, pc, req, scope, app_out, handler, response, ret, log,
                   schema_writer, schema_readers>>

\* Some other request is served by the same application object.
OtherCall ==
    /\ client # None
    /\ \E r \in ProxyRequests :
           LET a == client[1].app
           IN  openapi_schema' = [openapi_schema EXCEPT
                                     ![a] = App(a, AsgiRequest(r), openapi_schema[a]).cache]
    /\ UNCHANGED <<settings, pc, req, scope, app_out, handler, response, ret, log,
                   schema_writer, schema_readers, client>>

InitApp ==
    /\ ProxyInit
    /\ client \in {Some([app |-> a, req |-> r, outs |-> <<>>]) : a \in Apps, r \in AllRequests}

NextApp == ClientCall \/ OtherCall

SpecApp == InitApp /\ [][NextApp]_vars

(***************************************************************************)
(* Vocabulary of the properties.                                           *)
(***************************************************************************)
OmyPath == <<"api", "omy">>
HelloPath == <<"api", "helloUser">>
DocsPath == <<"api", "docs">>

\* The direct calls made so far, each with the request it was made with.
Calls ==
    IF client = None THEN {}
    ELSE {[app |-> client[1].app, req |-> client[1].req, nth |-> k,
           out |-> client[1].outs[k]] : k \in 1..Len(client[1].outs)}

IsGetOmy(r) == r.method = "GET" /\ r.url.path = OmyPath
IsPostHello(r) == r.method = "POST" /\ r.url.path = HelloPath
IsGetDocs(r) == r.method = "GET" /\ r.url.path = DocsPath

\* The values the query string gives for `name`.
SuppliedNames(r) == {r.url.query[n].v : n \in {k \in 1..Len(r.url.query) : r.url.query[k].k = "name"}}

\* The body is a JSON object sent as JSON.
JsonObjectBody(r) ==
    /\ r.headers.content_type \in {"", "application/json"}
    /\ r.body.kind = "json"
    /\ r.body.t = "object"

\* The value the JSON object gives for `name`, if any.
NameField(r) == ObjGet(r.body.members, "name")

CarriesTextName(r) ==
    JsonObjectBody(r) /\ NameField(r) # None /\ NameField(r)[1].t = "string"

(***************************************************************************)
(* C1: every GET /api/omy is answered with status 200 and exactly the body *)
(* {"message": "O my, hello, <name>!"}, <name> being the value supplied in *)
(* the query parameter name, or "World" when the parameter is absent.      *)
(***************************************************************************)
C1_OmyGreeting ==
    \A c \in Calls :
        IsGetOmy(c.req) =>
            /\ c.out.response.status = 200
            /\ c.out.response.headers.content_type = "application/json"
            /\ IF SuppliedNames(c.req) = {}
               THEN c.out.response.body = JsonMessage("O my, hello, World!")
               ELSE \E n \in SuppliedNames(c.req) :
                        c.out.response.body = JsonMessage("O my, hello, " \o n \o "!")

C1_Witness ==
    \E c \in Calls :
        /\ IsGetOmy(c.req)
        /\ c.req.url.query = Name("Alice")
        /\ c.out.response.status = 200
        /\ c.out.response.body.text = "O my, hello, Alice!"

(***************************************************************************)
(* C2: every POST /api/helloUser whose JSON body carries a text field name *)
(* is answered with status 200 and exactly {"message": "Hello, <name>!"},  *)
(* <name> being the submitted value, unmodified.                           *)
(***************************************************************************)
C2_HelloGreeting ==
    \A c \in Calls :
        (IsPostHello(c.req) /\ CarriesTextName(c.req)) =>
            /\ c.out.response.status = 200
            /\ c.out.response.body = JsonMessage("Hello, " \o NameField(c.req)[1].v \o "!")

C2_Witness ==
    \E c \in Calls :
        /\ IsPostHello(c.req)
        /\ c.req.body = ObjectBody(NameMember(JString("Bob")))
        /\ c.out.response.status = 200
        /\ c.out.response.body.text = "Hello, Bob!"

(***************************************************************************)
(* C3: a POST /api/helloUser whose JSON body has no name field, or a name  *)
(* field that is not text, is answered with status 422 and a validation    *)
(* error that names the violated field; the greeting handler does not run  *)
(* and no 200 greeting is produced.  (Any other body that carries no text  *)
(* name is refused as well, the error naming the body.)                    *)
(***************************************************************************)
C3_HelloValidation ==
    \A c \in Calls :
        (IsPostHello(c.req) /\ ~CarriesTextName(c.req)) =>
            /\ c.out.response.status = 422
            /\ c.out.response.body.kind = "errors"
            /\ Len(c.out.response.body.errors) = 1
            /\ c.out.response.body.errors[1].loc[1] = "body"
            /\ c.out.ran # "hello"
            /\ JsonObjectBody(c.req) =>
                   /\ c.out.response.body.errors[1].loc = <<"body", "name">>
                   /\ c.out.response.body.errors[1].type =
                          IF NameField(c.req) = None THEN "missing" ELSE "string_type"

C3_Witness ==
    \E c \in Calls :
        /\ IsPostHello(c.req)
        /\ c.req.body = ObjectBody(NameMember(JNumber))
        /\ c.req.headers.content_type = "application/json"
        /\ c.out.response.status = 422
        /\ c.out.ran = ""

(***************************************************************************)
(* C4, as claimed: a POST /api/helloUser whose body has name equal to the  *)
(* empty string does not pass validation and is not answered with a 200    *)
(* greeting.                                                               *)
(***************************************************************************)
C4_EmptyNameRefused ==
    \A c \in Calls :
        (IsPostHello(c.req) /\ CarriesTextName(c.req) /\ NameField(c.req)[1].v = "") =>
            /\ c.out.response.status # 200
            /\ c.out.ran # "hello"

(***************************************************************************)
(* C4, amended: name is required and must be text, but may be empty: a     *)
(* POST /api/helloUser whose body has name equal to the empty string       *)
(* passes validation and is answered with status 200 and                   *)
(* {"message": "Hello, !"}; a JSON object without name is refused (422).   *)
(***************************************************************************)
C4_EmptyNameAccepted ==
    \A c \in Calls :
        /\ (IsPostHello(c.req) /\ CarriesTextName(c.req) /\ NameField(c.req)[1].v = "") =>
               /\ c.out.response.status = 200
               /\ c.out.response.body = JsonMessage("Hello, !")
               /\ c.out.ran = "hello"
        /\ (IsPostHello(c.req) /\ JsonObjectBody(c.req) /\ NameField(c.req) = None) =>
               c.out.response.status = 422

C4_Witness ==
    \E c \in Calls :
        /\ IsPostHello(c.req)
        /\ c.req.body = ObjectBody(NameMember(JString("")))
        /\ c.out.response.status = 200
        /\ c.out.response.body.text = "Hello, !"

(***************************************************************************)
(* C9: GET /api/docs always answers with status 200 and an HTML page that  *)
(* holds the "swagger-ui" marker and the API schema written into the page  *)
(* (its "openapi" entry included), generated from the application's route  *)
(* table and not fetched from a schema URL; the docs route itself is not   *)
(* listed in that schema.                                                  *)
(***************************************************************************)
C9_DocsPage ==
    \A c \in Calls :
        IsGetDocs(c.req) =>
            LET b == c.out.response.body
            IN  /\ c.out.response.status = 200
                /\ c.out.response.headers.content_type = "text/html; charset=utf-8"
                /\ b.kind = "html"
                /\ b.text = "swagger-ui"
                /\ b.openapi_url = ""
                /\ b.spec # None
                /\ b.spec[1].openapi = "3.1.0"
                /\ b.spec[1].info.title = AppInfo(c.app).title
                /\ b.spec[1].paths = {[path |-> OmyPath, method |-> "GET"],
                                      [path |-> HelloPath, method |-> "POST"]}
                /\ \A p \in b.spec[1].paths : p.path # DocsPath

C9_Witness ==
    \E c \in Calls :
        /\ IsGetDocs(c.req)
        /\ c.app = "app"
        /\ c.nth = 2
        /\ c.out.hit
        /\ c.out.response.body.spec # None
        /\ c.out.response.body.title = "FastAPI on Azure Functions - Swagger UI"

(***************************************************************************)
(* Vocabulary of the properties of the proxy function.                     *)
(***************************************************************************)
Answered(i) == pc[i] \in {"responded", "logged", "returned"}
Returned(i) == pc[i] = "returned"

\* What the embedded application answers to a request when nothing else has
\* been served before it.
Alone(r) == App("fastapi_app", AsgiRequest(r), None).response

RegisteredPaths == {Routes[n].path : n \in 1..Len(Routes)}

\* The log lines emitted by invocation i.
LinesOf(i) == {n \in 1..Len(log) : log[n].by = i}

(***************************************************************************)
(* C5: for every request handled by fastapi_handler, the request passed to *)
(* the embedded application is the inbound request unchanged (method,      *)
(* path, query, headers, body), and the response returned to the gateway   *)
(* has exactly the status code, headers and body of the embedded           *)
(* application's response for that request; no response is substituted,    *)
(* altered or returned without the application having answered.            *)
(***************************************************************************)
C5_ProxyRelays ==
    \A i \in Inv :
        /\ pc[i] # "idle" =>
               /\ scope[i] # None
               /\ scope[i][1].method = req[i][1].method
               /\ scope[i][1].path = req[i][1].url.path
               /\ scope[i][1].query_string = req[i][1].url.query
               /\ scope[i][1].headers = req[i][1].headers
               /\ scope[i][1].body = req[i][1].body
        /\ ret[i] # None =>
               /\ app_out[i] # None
               /\ ret[i][1].status_code = app_out[i][1].status
               /\ ret[i][1].headers = app_out[i][1].headers
               /\ ret[i][1].body = app_out[i][1].body
        /\ Returned(i) => ret[i] # None

C5_Witness ==
    \E i \in Inv :
        /\ Returned(i)
        /\ req[i][1].url.path = HelloPath
        /\ ret[i][1].status_code = 422
        /\ ret[i][1].body = app_out[i][1].body

(***************************************************************************)
(* C6: repeating a request with identical input (method, path, query,      *)
(* body) yields identical output (status and body), however many and       *)
(* whichever other requests were served in between.                        *)
(***************************************************************************)
C6_Idempotent ==
    \A c, d \in Calls :
        /\ c.out.response.status = d.out.response.status
        /\ c.out.response.body = d.out.response.body

C6_Witness ==
    \E c, d \in Calls :
        /\ c.nth < d.nth
        /\ IsGetDocs(c.req)
        /\ ~c.out.hit
        /\ d.out.hit
        /\ c.out.response.body.spec # None
        /\ c.out.response = d.out.response

(***************************************************************************)
(* C7, as claimed: under every interleaving each request receives the      *)
(* response computed from its own input only, no invocation reads or       *)
(* writes state written by another, and the configuration holder is never  *)
(* modified after initialization.                                          *)
(***************************************************************************)
C7_NothingShared ==
    /\ \A i \in Inv : Answered(i) => app_out[i][1] = Alone(req[i][1])
    /\ schema_readers = {}
    /\ settings = Settings

(***************************************************************************)
(* C7, amended: under every interleaving each request receives the         *)
(* response computed from its own input only (the response it would get    *)
(* were it the only request ever served), and the configuration holder is  *)
(* never modified after initialization.  Apart from what the embedded      *)
(* application object caches on first use, no invocation reads or writes   *)
(* state written by another: the first request for the schema-viewer page  *)
(* or the schema stores the API schema, later such requests are served     *)
(* from it, and it always holds the schema generated from the fixed route  *)
(* table.                                                                  *)
(***************************************************************************)
C7_Independent ==
    /\ \A i \in Inv :
           /\ Answered(i) => app_out[i][1] = Alone(req[i][1])
           /\ Returned(i) => ret[i][1] = to_func_response(Alone(req[i][1]))
    /\ settings = Settings
    /\ openapi_schema["fastapi_app"] \in {None, Some(get_openapi("fastapi_app"))}
    /\ \A i \in schema_readers :
           /\ schema_writer \in Inv \ {i}
           /\ handler[i] \in {"custom_swagger_ui_html", "openapi"}
    /\ schema_writer # 0 => handler[schema_writer] \in {"custom_swagger_ui_html", "openapi"}

C7_Witness ==
    \E i, j \in Inv :
        /\ i # j
        /\ schema_writer = i
        /\ j \in schema_readers
        /\ pc[i] = "responded"
        /\ pc[j] = "responded"
        /\ app_out[j][1] = Alone(req[j][1])

(***************************************************************************)
(* C8, as claimed: every request whose path is not one of the registered   *)
(* routes is accepted by the proxy, forwarded to the embedded              *)
(* application's router and answered with status 404; the proxy never      *)
(* answers a request without forwarding it.                                *)
(***************************************************************************)
C8_Unmatched404 ==
    \A i \in Inv :
        /\ ret[i] # None => (scope[i] # None /\ app_out[i] # None)
        /\ (Returned(i) /\ req[i][1].url.path \notin RegisteredPaths) =>
               ret[i][1].status_code = 404

(***************************************************************************)
(* C8, amended: every request whose path is not one of the registered      *)
(* routes is accepted by the proxy and forwarded to the embedded           *)
(* application's router, and the proxy never answers a request without     *)
(* forwarding it.  The router answers it with status 404, unless the path  *)
(* differs from a registered route only by its trailing slash: then it     *)
(* answers with a 307 redirect to the registered path.                     *)
(***************************************************************************)
C8_Unmatched404OrRedirect ==
    \A i \in Inv :
        /\ ret[i] # None => (scope[i] # None /\ app_out[i] # None)
        /\ (pc[i] # "idle" /\ req[i][1].url.path \notin RegisteredPaths) =>
               scope[i] = Some(AsgiRequest(req[i][1]))
        /\ (Returned(i) /\ req[i][1].url.path \notin RegisteredPaths) =>
               LET p == req[i][1].url.path
               IN  IF p # <<"">> /\ ToggleSlash(p) \in RegisteredPaths
                   THEN /\ ret[i][1].status_code = 307
                        /\ ret[i][1].headers.location = Some(ToggleSlash(p))
                   ELSE /\ ret[i][1].status_code = 404
                        /\ ret[i][1].body = JsonDetail("Not Found")

C8_Witness ==
    \E i, j \in Inv :
        /\ Returned(i) /\ Returned(j)
        /\ req[i][1].url.path = <<"api", "nope">>
        /\ ret[i][1].status_code = 404
        /\ req[j][1].url.path = <<"api", "omy", "">>
        /\ ret[j][1].status_code = 307

(***************************************************************************)
(* C10: each call of fastapi_handler emits exactly one log line, holding   *)
(* that request's method and URL and the status code of the response       *)
(* returned for it; the line is emitted only after the embedded            *)
(* application's response has been received and before the response is     *)
(* returned, and a call whose forwarding raises emits no log line.         *)
(***************************************************************************)
C10_OneLogLine ==
    \A i \in Inv :
        /\ pc[i] \in {"idle", "awaiting", "responded", "raised"} => LinesOf(i) = {}
        /\ pc[i] \in {"logged", "returned"} =>
               /\ Cardinality(LinesOf(i)) = 1
               /\ \A n \in LinesOf(i) :
                      /\ log[n].method = req[i][1].method
                      /\ log[n].url = req[i][1].url
                      /\ log[n].status_code = app_out[i][1].status
                      /\ Returned(i) => log[n].status_code = ret[i][1].status_code
        /\ LinesOf(i) # {} => app_out[i] # None
        /\ ret[i] # None => LinesOf(i) # {}

C10_Witness ==
    \E i, j \in Inv :
        /\ Returned(i)
        /\ Cardinality(LinesOf(i)) = 1
        /\ log[1].status_code = 422
        /\ pc[j] = "raised"
        /\ LinesOf(j) = {}

====
